---- MODULE Spec2Model ----
(***************************************************************************)
(* The record converter of src/src/main.rs: a text in one of four formats  *)
(* is decoded into a Vec<Record> and encoded again in another format.      *)
(*                                                                         *)
(* A text is a sequence of tokens <<kind, chars>>.  Kinds: "p" punctuation,*)
(* "ws" whitespace (blank, indent, line feed), "num" a number literal,     *)
(* "str" a quoted string, "word" a bare word (key, plain scalar, keyword), *)
(* "f" a CSV field.  Spaces between two tokens of one line are not kept;   *)
(* line feeds and YAML indents are.                                        *)
(***************************************************************************)
EXTENDS Integers, Sequences, FiniteSets, TLC

\* Longest canonical sequence of records that is enumerated.
MaxLen == 2

Formats == {"Json", "Yaml", "Csv", "Toml"}

\* Record's fields in declared order.
RecordFields == <<"id", "name", "value", "active">>

\* f64 values are held as a count of hundredths: 12.34 is 1234.
Alice == [id |-> 1, name |-> "Alice", value |-> 1234, active |-> TRUE]
Bob == [id |-> 2, name |-> "Bob", value |-> 5678, active |-> FALSE]
Charlie == [id |-> 3, name |-> "Charlie", value |-> 9900, active |-> TRUE]

\* The records of the sample data in main.
Records == {Alice, Bob, Charlie}

RECURSIVE SeqsUpTo(_, _)
SeqsUpTo(S, n) ==
  IF n = 0 THEN {<<>>}
  ELSE LET shorter == SeqsUpTo(S, n - 1)
       IN shorter \cup {Append(s, x) : s \in {t \in shorter : Len(t) = n - 1}, x \in S}

\* The canonical sequences: Vec<Record>, order significant.
Canon == SeqsUpTo(Records, MaxLen)

----------------------------------------------------------------------------
\* Tokens

P(s) == <<"p", s>>
WS(s) == <<"ws", s>>
Num(s) == <<"num", s>>
Str(s) == <<"str", s>>
Word(s) == <<"word", s>>
F(s) == <<"f", s>>
NL == WS("\n")
SP == WS(" ")
Indent == WS("  ")

IsWhitespace(t) == t[1] = "ws"

RECURSIVE Concat(_)
Concat(ss) == IF ss = <<>> THEN <<>> ELSE Head(ss) \o Concat(Tail(ss))

\* Result<T, ConversionError>
Ok(v) == [tag |-> "Ok", val |-> v]
Err(kind, fmt) == [tag |-> "Err", kind |-> kind, fmt |-> fmt]
IsOk(r) == r.tag = "Ok"
IsErr(r) == r.tag = "Err"

\* ConversionError's variants; only the last two carry a Format.
ErrorKinds ==
  {"Json", "Yaml", "Csv", "TomlDe", "TomlSer", "Utf8", "Io",
   "UnsupportedRepresentation", "EmptyInput"}

\* The variant a format's decoder maps its library error to (#[from]).
DecodeKind(format) ==
  CASE format = "Json" -> "Json"
    [] format = "Yaml" -> "Yaml"
    [] format = "Csv" -> "Csv"
    [] format = "Toml" -> "TomlDe"

----------------------------------------------------------------------------
\* Scalars as text

\* u32 to decimal digits.
U32Text(n) ==
  CASE n = 0 -> "0"
    [] n = 1 -> "1"
    [] n = 2 -> "2"
    [] n = 3 -> "3"

\* The u32 values whose digits are tabulated.
U32Known == {0, 1, 2, 3}

\* Decimal digits to u32; anything else (a sign, a fraction, a letter, a
\* value above u32::MAX) is an error.
ParseU32(s) ==
  IF \E n \in U32Known : U32Text(n) = s
  THEN Ok(CHOOSE n \in U32Known : U32Text(n) = s)
  ELSE Err("scalar", "u32")

\* f64 to its shortest decimal form; an integral value keeps ".0".
F64Text(v) ==
  CASE v = 1234 -> "12.34"
    [] v = 5678 -> "56.78"
    [] v = 9900 -> "99.0"

\* Decimal text to f64; several texts denote one value.
ParseF64(s) ==
  CASE s \in {"12.34", "12.340"} -> Ok(1234)
    [] s = "56.78" -> Ok(5678)
    [] s \in {"99.0", "99", "99.00"} -> Ok(9900)
    [] s \in {"1", "1.0"} -> Ok(100)
    [] s \in {"2", "2.0"} -> Ok(200)
    [] s \in {"3", "3.0"} -> Ok(300)
    [] OTHER -> Err("scalar", "f64")

BoolText(b) == IF b THEN "true" ELSE "false"

ParseBool(s) ==
  CASE s = "true" -> Ok(TRUE)
    [] s = "false" -> Ok(FALSE)
    [] OTHER -> Err("scalar", "bool")

\* One field of a record as text, without any format's quoting.
FieldText(record, field) ==
  CASE field = "id" -> U32Text(record.id)
    [] field = "name" -> record.name
    [] field = "value" -> F64Text(record.value)
    [] field = "active" -> BoolText(record.active)

\* The token kind a self-describing format (JSON, TOML) writes a field as.
LiteralKind(field) ==
  CASE field = "id" -> "num"
    [] field = "name" -> "str"
    [] field = "value" -> "num"
    [] field = "active" -> "word"

FieldSet == {RecordFields[i] : i \in DOMAIN RecordFields}

\* A library error before the ? operator turns it into a ConversionError variant.
LibErr(why) == [tag |-> "Err", kind |-> "lib", fmt |-> why]

\* the ? operator with #[from]: a library error becomes the variant kind.
Question(r, kind) == IF IsErr(r) THEN Err(kind, "None") ELSE r

\* One field value from its token.  style "typed": JSON and TOML literals,
\* "plain": YAML scalars, "text": CSV fields.
ParseField(field, tok, style) ==
  LET kindOk ==
        CASE style = "text" -> tok[1] = "f"
          [] style = "typed" -> tok[1] = LiteralKind(field)
          [] style = "plain" ->
               IF field = "name" THEN tok[1] \in {"word", "str"}
               ELSE tok[1] = LiteralKind(field)
  IN IF ~kindOk THEN LibErr("invalid type")
     ELSE CASE field = "id" -> ParseU32(tok[2])
            [] field = "name" -> Ok(tok[2])
            [] field = "value" -> ParseF64(tok[2])
            [] field = "active" -> ParseBool(tok[2])

Unset == [tag |-> "Unset"]

\* Record's visitor with #[serde(deny_unknown_fields)]: an unknown key is an
\* error.
RECURSIVE VisitMap_DenyUnknown(_, _, _)
VisitMap_DenyUnknown(pairs, got, style) ==
  IF pairs = <<>>
  THEN IF \E f \in FieldSet : got[f].tag = "Unset"
       THEN LibErr("missing field")
       ELSE Ok([id |-> got["id"].val, name |-> got["name"].val,
                value |-> got["value"].val, active |-> got["active"].val])
  ELSE LET key == Head(pairs)[1]
           tok == Head(pairs)[2]
       IN IF key \notin FieldSet
          THEN LibErr("unknown field")
          ELSE IF got[key].tag # "Unset"
          THEN LibErr("duplicate field")
          ELSE LET v == ParseField(key, tok, style)
               IN IF IsErr(v) THEN LibErr("invalid value")
                  ELSE VisitMap_DenyUnknown(Tail(pairs), [got EXCEPT ![key] = v], style)

\* #[derive(Deserialize)] for Record, fed the (key, value) pairs of one map in
\* the order of the text: an unknown key is skipped, a key seen twice or a
\* field never seen is an error.
RECURSIVE VisitMap(_, _, _)
VisitMap(pairs, got, style) ==
  IF pairs = <<>>
  THEN IF \E f \in FieldSet : got[f].tag = "Unset"
       THEN LibErr("missing field")
       ELSE Ok([id |-> got["id"].val, name |-> got["name"].val,
                value |-> got["value"].val, active |-> got["active"].val])
  ELSE LET key == Head(pairs)[1]
           tok == Head(pairs)[2]
       IN IF key \notin FieldSet
          THEN VisitMap(Tail(pairs), got, style)
          ELSE IF got[key].tag # "Unset"
          THEN LibErr("duplicate field")
          ELSE LET v == ParseField(key, tok, style)
               IN IF IsErr(v) THEN LibErr("invalid value")
                  ELSE VisitMap(Tail(pairs), [got EXCEPT ![key] = v], style)

DeserializeRecord(pairs, style) ==
  VisitMap(pairs, [f \in FieldSet |-> Unset], style)

\* The text split at every token equal to sep; the separators are dropped.
RECURSIVE Split(_, _)
Split(text, sep) ==
  IF \A i \in DOMAIN text : text[i] # sep
  THEN <<text>>
  ELSE LET k == CHOOSE i \in DOMAIN text :
                  text[i] = sep /\ \A j \in 1..(i - 1) : text[j] # sep
       IN <<SubSeq(text, 1, k - 1)>> \o Split(SubSeq(text, k + 1, Len(text)), sep)

\* str::trim: leading and trailing whitespace removed.
RECURSIVE TrimStart(_)
TrimStart(text) ==
  IF text # <<>> /\ IsWhitespace(Head(text)) THEN TrimStart(Tail(text)) ELSE text

RECURSIVE TrimEnd(_)
TrimEnd(text) ==
  IF text # <<>> /\ IsWhitespace(text[Len(text)])
  THEN TrimEnd(SubSeq(text, 1, Len(text) - 1))
  ELSE text

Trim(text) == TrimEnd(TrimStart(text))

----------------------------------------------------------------------------
\* CSV

\* csv::Writer, has_headers(true): one line of comma-separated fields.
CsvLine(fields) ==
  Concat([i \in DOMAIN fields |->
            IF i = 1 THEN <<F(fields[i])>> ELSE <<P(","), F(fields[i])>>])
  \o <<NL>>

CsvRow(record) ==
  CsvLine([i \in DOMAIN RecordFields |-> FieldText(record, RecordFields[i])])

\* Writer::serialize in the loop of serialize_to_string: the header is
\* written by the first call, so no record means no header.
RECURSIVE CsvWriteFrom(_, _)
CsvWriteFrom(records, i) ==
  IF i > Len(records) THEN <<>>
  ELSE (IF i = 1 THEN CsvLine(RecordFields) ELSE <<>>)
       \o CsvRow(records[i]) \o CsvWriteFrom(records, i + 1)

CsvSerialize(records) == Ok(CsvWriteFrom(records, 1))

\* csv::Reader: the lines that hold a record (empty lines are skipped), each
\* as its sequence of fields.
CsvRows(text) ==
  LET lines == Split(text, NL)
      full == SelectSeq(lines, LAMBDA l : l # <<>>)
  IN [i \in DOMAIN full |->
        LET cells == Split(full[i], P(","))
        IN [j \in DOMAIN cells |-> IF cells[j] = <<>> THEN F("") ELSE cells[j][1]]]

\* A row bound to the declared fields by position, whatever the header says.
CsvDeserializeRow_Positional(headers, row) ==
  IF Len(row) # Len(headers)
  THEN LibErr("unequal lengths")
  ELSE DeserializeRecord(
         [j \in DOMAIN RecordFields |->
            <<RecordFields[j], IF j <= Len(row) THEN row[j] ELSE F("")>>], "text")

\* One iteration of reader.deserialize(): a row whose field count differs
\* from the header's is an error (flexible is off); else the fields are bound
\* by header name.
CsvDeserializeRow(headers, row) ==
  IF Len(row) # Len(headers)
  THEN LibErr("unequal lengths")
  ELSE DeserializeRecord([j \in DOMAIN headers |-> <<headers[j][2], row[j]>>], "text")

\* The loop stopping at the first bad row and returning the records read so far.
RECURSIVE CsvLoop_KeepParsed(_, _, _)
CsvLoop_KeepParsed(rows, i, records) ==
  IF i > Len(rows) THEN Ok(records)
  ELSE LET result == CsvDeserializeRow(rows[1], rows[i])
       IN IF IsErr(result) THEN Ok(records)
          ELSE CsvLoop_KeepParsed(rows, i + 1, Append(records, result.val))

\* for result in reader.deserialize() { let record = result?; records.push(record) }
RECURSIVE CsvLoop(_, _, _)
CsvLoop(rows, i, records) ==
  IF i > Len(rows) THEN Ok(records)
  ELSE LET result == CsvDeserializeRow(rows[1], rows[i])
       IN IF IsErr(result) THEN Question(result, "Csv")
          ELSE CsvLoop(rows, i + 1, Append(records, result.val))

CsvDeserialize(input) ==
  LET rows == CsvRows(input)
  IN IF rows = <<>> THEN Ok(<<>>) ELSE CsvLoop(rows, 2, <<>>)

----------------------------------------------------------------------------
\* JSON

\* One field as a self-describing literal: 1, "Alice", 12.34, true.
Literal(record, field) == <<LiteralKind(field), FieldText(record, field)>>

\* #[derive(Serialize)] for Record: the fields in declared order, each
\* <<key, value token>>.
SerializeRecord(record) ==
  [i \in DOMAIN RecordFields |-> <<RecordFields[i], Literal(record, RecordFields[i])>>]

\* A pretty-printed JSON object: one member per line; members are
\* <<key, value tokens>>.
JsonRenderObject(members) ==
  <<P("{"), NL>>
  \o Concat([i \in DOMAIN members |->
       <<Str(members[i][1]), P(":")>> \o members[i][2]
       \o (IF i < Len(members) THEN <<P(",")>> ELSE <<>>) \o <<NL>>])
  \o <<P("}")>>

\* A pretty-printed JSON array of the given elements; the empty one is "[]".
JsonRenderArray(elems) ==
  IF elems = <<>> THEN <<P("["), P("]")>>
  ELSE <<P("["), NL>>
       \o Concat([i \in DOMAIN elems |->
            elems[i] \o (IF i < Len(elems) THEN <<P(",")>> ELSE <<>>) \o <<NL>>])
       \o <<P("]")>>

JsonObject(record) ==
  LET fields == SerializeRecord(record)
  IN JsonRenderObject([i \in DOMAIN fields |-> <<fields[i][1], <<fields[i][2]>>>>])

\* serde_json::to_string_pretty(records)
JsonSerialize(records) ==
  Ok(JsonRenderArray([i \in DOMAIN records |-> JsonObject(records[i])]))

JsonIsScalar(t) ==
  \/ t[1] \in {"num", "str"}
  \/ t[1] = "word" /\ t[2] \in {"true", "false", "null"}

\* The token standing for an array or an object where a field value is bound.
Composite == P("composite")

\* The index after the JSON value that starts at toks[i]; 0 if there is none.
RECURSIVE JsonSkipValue(_, _)
RECURSIVE JsonSkipElems(_, _)
RECURSIVE JsonSkipMembers(_, _)
JsonSkipValue(toks, i) ==
  IF i > Len(toks) THEN 0
  ELSE IF JsonIsScalar(toks[i]) THEN i + 1
  ELSE IF toks[i] = P("[")
  THEN IF i + 1 <= Len(toks) /\ toks[i + 1] = P("]") THEN i + 2
       ELSE JsonSkipElems(toks, i + 1)
  ELSE IF toks[i] = P("{")
  THEN IF i + 1 <= Len(toks) /\ toks[i + 1] = P("}") THEN i + 2
       ELSE JsonSkipMembers(toks, i + 1)
  ELSE 0

JsonSkipElems(toks, i) ==
  LET j == JsonSkipValue(toks, i)
  IN IF j = 0 \/ j > Len(toks) THEN 0
     ELSE IF toks[j] = P(",") THEN JsonSkipElems(toks, j + 1)
     ELSE IF toks[j] = P("]") THEN j + 1
     ELSE 0

JsonSkipMembers(toks, i) ==
  IF i + 1 > Len(toks) \/ toks[i][1] # "str" \/ toks[i + 1] # P(":") THEN 0
  ELSE LET j == JsonSkipValue(toks, i + 2)
       IN IF j = 0 \/ j > Len(toks) THEN 0
          ELSE IF toks[j] = P(",") THEN JsonSkipMembers(toks, j + 1)
          ELSE IF toks[j] = P("}") THEN j + 1
          ELSE 0

\* The members of the object whose first key is at toks[i], as (key, value)
\* pairs, with the index after its "}": [next, pairs], next = 0 on a syntax
\* error.
RECURSIVE JsonMembers(_, _, _)
JsonMembers(toks, i, pairs) ==
  IF i + 1 > Len(toks) \/ toks[i][1] # "str" \/ toks[i + 1] # P(":")
  THEN [next |-> 0, pairs |-> pairs]
  ELSE LET j == JsonSkipValue(toks, i + 2)
           val == IF j = i + 3 THEN toks[i + 2] ELSE Composite
           more == Append(pairs, <<toks[i][2], val>>)
       IN IF j = 0 \/ j > Len(toks) THEN [next |-> 0, pairs |-> pairs]
          ELSE IF toks[j] = P(",") THEN JsonMembers(toks, j + 1, more)
          ELSE IF toks[j] = P("}") THEN [next |-> j + 1, pairs |-> more]
          ELSE [next |-> 0, pairs |-> pairs]

\* Record from the JSON value at toks[i]: [next, rec]; an object binds by
\* key (visit_map), an array binds the declared fields by position (visit_seq).
JsonRecord(toks, i) ==
  IF i + 1 > Len(toks) THEN [next |-> 0, rec |-> LibErr("eof")]
  ELSE IF toks[i] = P("{")
  THEN LET m == IF toks[i + 1] = P("}")
                THEN [next |-> i + 2, pairs |-> <<>>]
                ELSE JsonMembers(toks, i + 1, <<>>)
       IN [next |-> m.next,
           rec |-> IF m.next = 0 THEN LibErr("syntax")
                   ELSE DeserializeRecord(m.pairs, "typed")]
  ELSE IF toks[i] = P("[")
  THEN LET j == JsonSkipValue(toks, i)
           n == Len(RecordFields)
           flat == j = i + 2 * n + 1
                   /\ \A k \in 1..n : JsonIsScalar(toks[i + 2 * k - 1])
       IN [next |-> j,
           rec |-> IF j = 0 THEN LibErr("syntax")
                   ELSE IF ~flat THEN LibErr("invalid length or type")
                   ELSE DeserializeRecord(
                          [k \in 1..n |-> <<RecordFields[k], toks[i + 2 * k - 1]>>],
                          "typed")]
  ELSE [next |-> 0, rec |-> LibErr("invalid type")]

\* The elements of the array whose first element is at toks[i].
RECURSIVE JsonElems(_, _, _)
JsonElems(toks, i, records) ==
  LET r == JsonRecord(toks, i)
  IN IF r.next = 0 \/ IsErr(r.rec) THEN LibErr("element")
     ELSE IF r.next > Len(toks) THEN LibErr("eof")
     ELSE IF toks[r.next] = P(",")
     THEN JsonElems(toks, r.next + 1, Append(records, r.rec.val))
     ELSE IF toks[r.next] = P("]") /\ r.next = Len(toks)
     THEN Ok(Append(records, r.rec.val))
     ELSE LibErr("trailing characters")

\* serde_json::from_str::<Vec<Record>>: whitespace between tokens is skipped;
\* the text must be one array and nothing after it.
JsonDeserialize(input) ==
  LET toks == SelectSeq(input, LAMBDA t : ~IsWhitespace(t))
  IN IF Len(toks) < 2 \/ toks[1] # P("[") THEN LibErr("expected array")
     ELSE IF toks[2] = P("]")
     THEN IF Len(toks) = 2 THEN Ok(<<>>) ELSE LibErr("trailing characters")
     ELSE JsonElems(toks, 2, <<>>)

----------------------------------------------------------------------------
\* YAML

\* A string that would read back as a number, a boolean or null is quoted.
YamlNeedsQuote(s) ==
  \/ IsOk(ParseU32(s)) \/ IsOk(ParseF64(s)) \/ IsOk(ParseBool(s))
  \/ s \in {"", "null", "~"}

YamlScalar(record, field) ==
  IF field = "name"
  THEN IF YamlNeedsQuote(record.name) THEN Str(record.name) ELSE Word(record.name)
  ELSE Literal(record, field)

\* A block mapping inside a block sequence: "- key: value", then the other
\* entries indented under it; entries are <<key, value token>>.
YamlRenderItem(entries) ==
  Concat([i \in DOMAIN entries |->
    <<IF i = 1 THEN P("-") ELSE Indent, Word(entries[i][1]), P(":"),
      entries[i][2], NL>>])

YamlItem(record) ==
  YamlRenderItem([i \in DOMAIN RecordFields |->
    <<RecordFields[i], YamlScalar(record, RecordFields[i])>>])

\* serde_yaml::to_string(records); the empty slice is written "[]".
YamlSerialize(records) ==
  IF records = <<>> THEN Ok(<<P("["), P("]"), NL>>)
  ELSE Ok(Concat([i \in DOMAIN records |-> YamlItem(records[i])]))

YamlIsEntry(line) ==
  /\ Len(line) = 4
  /\ line[1] \in {P("-"), Indent}
  /\ line[2][1] = "word"
  /\ line[3] = P(":")
  /\ line[4][1] \in {"num", "word", "str"}

\* The items of a block sequence from line i on; pairs holds the entries of
\* the item being read.
RECURSIVE YamlItems(_, _, _, _)
YamlItems(lines, i, pairs, records) ==
  LET done == DeserializeRecord(pairs, "plain")
  IN IF i > Len(lines)
     THEN IF IsErr(done) THEN done ELSE Ok(Append(records, done.val))
     ELSE IF ~YamlIsEntry(lines[i]) THEN LibErr("syntax")
     ELSE LET entry == <<lines[i][2][2], lines[i][4]>>
          IN IF lines[i][1] = Indent
             THEN YamlItems(lines, i + 1, Append(pairs, entry), records)
             ELSE IF IsErr(done) THEN done
             ELSE YamlItems(lines, i + 1, <<entry>>, Append(records, done.val))

\* serde_yaml::from_str::<Vec<Record>>: a block sequence of mappings, or the
\* empty flow sequence.
YamlDeserialize(input) ==
  LET lines == SelectSeq(Split(input, NL), LAMBDA l : l # <<>>)
  IN IF lines = <<>> THEN LibErr("eof")
     ELSE IF lines = << <<P("["), P("]")>> >> THEN Ok(<<>>)
     ELSE IF ~YamlIsEntry(lines[1]) \/ lines[1][1] # P("-")
     THEN LibErr("expected a sequence")
     ELSE YamlItems(lines, 2, << <<lines[1][2][2], lines[1][4]>> >>, <<>>)

----------------------------------------------------------------------------
\* TOML

\* The key of struct TomlWrapper's only field.
WrapperKey == "records"

\* One element of the array of tables called name; entries are
\* <<key, value token>>.
TomlRenderTable(name, entries) ==
  <<P("[["), Word(name), P("]]"), NL>>
  \o Concat([i \in DOMAIN entries |-> <<Word(entries[i][1]), P("="), entries[i][2], NL>>])

TomlTable(record) == TomlRenderTable(WrapperKey, SerializeRecord(record))

\* toml::to_string_pretty(&TomlWrapper { records }): tables separated by an
\* empty line; the empty slice is written "records = []".
TomlSerialize(records) ==
  IF records = <<>> THEN Ok(<<Word(WrapperKey), P("="), P("["), P("]"), NL>>)
  ELSE Ok(Concat([i \in DOMAIN records |->
            (IF i = 1 THEN <<>> ELSE <<NL>>) \o TomlTable(records[i])]))

EmptyArray == P("[]")

TomlIsHeader(line) ==
  Len(line) = 3 /\ line[1] = P("[[") /\ line[2][1] = "word" /\ line[3] = P("]]")

TomlIsKeyValue(line) ==
  /\ Len(line) >= 3 /\ line[1][1] = "word" /\ line[2] = P("=")
  /\ \/ Len(line) = 3 /\ line[3][1] \in {"num", "str", "word"}
     \/ Len(line) = 4 /\ line[3] = P("[") /\ line[4] = P("]")

\* The document read line by line: top holds the key/value pairs before the
\* first table header, tables the array-of-tables elements in order, each
\* <<array name, pairs>>.
RECURSIVE TomlScan(_, _, _, _)
TomlScan(lines, i, top, tables) ==
  IF i > Len(lines) THEN Ok([top |-> top, tables |-> tables])
  ELSE IF TomlIsHeader(lines[i])
  THEN TomlScan(lines, i + 1, top, Append(tables, <<lines[i][2][2], <<>>>>))
  ELSE IF TomlIsKeyValue(lines[i])
  THEN LET pair == <<lines[i][1][2],
                     IF Len(lines[i]) = 4 THEN EmptyArray ELSE lines[i][3]>>
           n == Len(tables)
       IN IF n = 0 THEN TomlScan(lines, i + 1, Append(top, pair), tables)
          ELSE TomlScan(lines, i + 1, top,
                 [tables EXCEPT ![n] = <<tables[n][1], Append(tables[n][2], pair)>>])
  ELSE LibErr("syntax")

\* Vec<Record> from the array-of-tables elements.
RECURSIVE TomlRecords(_, _, _)
TomlRecords(tables, i, records) ==
  IF i > Len(tables) THEN Ok(records)
  ELSE LET r == DeserializeRecord(tables[i][2], "typed")
       IN IF IsErr(r) THEN r ELSE TomlRecords(tables, i + 1, Append(records, r.val))

\* TomlWrapper with #[serde(default)] on records: a missing key reads as no
\* records.
TomlDeserialize_DefaultRecords(input) ==
  LET lines == SelectSeq(Split(input, NL), LAMBDA l : l # <<>>)
      doc == TomlScan(lines, 1, <<>>, <<>>)
  IN IF IsErr(doc) THEN doc
     ELSE LET inline == SelectSeq(doc.val.top, LAMBDA p : p[1] = WrapperKey)
              tabled == SelectSeq(doc.val.tables, LAMBDA t : t[1] = WrapperKey)
          IN IF inline # <<>>
             THEN IF Len(inline) = 1 /\ tabled = <<>> /\ inline[1][2] = EmptyArray
                  THEN Ok(<<>>)
                  ELSE LibErr("duplicate key or invalid type")
             ELSE TomlRecords(tabled, 1, <<>>)

\* toml::from_str::<TomlWrapper>: the top-level table must hold records,
\* an array of Record tables; other top-level keys are skipped.
TomlDeserialize(input) ==
  LET lines == SelectSeq(Split(input, NL), LAMBDA l : l # <<>>)
      doc == TomlScan(lines, 1, <<>>, <<>>)
  IN IF IsErr(doc) THEN doc
     ELSE LET inline == SelectSeq(doc.val.top, LAMBDA p : p[1] = WrapperKey)
              tabled == SelectSeq(doc.val.tables, LAMBDA t : t[1] = WrapperKey)
          IN IF inline # <<>>
             THEN IF Len(inline) = 1 /\ tabled = <<>> /\ inline[1][2] = EmptyArray
                  THEN Ok(<<>>)
                  ELSE LibErr("duplicate key or invalid type")
             ELSE IF tabled = <<>> THEN LibErr("missing field records")
             ELSE TomlRecords(tabled, 1, <<>>)

----------------------------------------------------------------------------
\* The converter

\* The match on format in deserialize_from_string: res is the Result, calls
\* the library parser that ran.
ParseAs(input, format) ==
  CASE format = "Json" ->
         [res |-> Question(JsonDeserialize(input), DecodeKind(format)),
          calls |-> <<"serde_json::from_str">>]
    [] format = "Yaml" ->
         [res |-> Question(YamlDeserialize(input), DecodeKind(format)),
          calls |-> <<"serde_yaml::from_str">>]
    [] format = "Csv" ->
         [res |-> CsvDeserialize(input),
          calls |-> <<"csv::Reader::deserialize">>]
    [] format = "Toml" ->
         [res |-> Question(TomlDeserialize(input), DecodeKind(format)),
          calls |-> <<"toml::from_str">>]

\* deserialize_from_string without its check for empty input.
DeserializeFromString_NoEmptyCheck(input, format) == ParseAs(input, format)

\* deserialize_from_string reporting a TOML parse failure as TomlSer.
DeserializeFromString_TomlSerKind(input, format) ==
  IF Trim(input) = <<>>
  THEN [res |-> Err("EmptyInput", format), calls |-> <<>>]
  ELSE IF format = "Toml"
  THEN [res |-> Question(TomlDeserialize(input), "TomlSer"),
        calls |-> <<"toml::from_str">>]
  ELSE ParseAs(input, format)

\* deserialize_from_string
DeserializeFromString(input, format) ==
  IF Trim(input) = <<>>
  THEN [res |-> Err("EmptyInput", format), calls |-> <<>>]
  ELSE ParseAs(input, format)

\* serialize_to_string
SerializeToString(records, format) ==
  CASE format = "Json" ->
         [res |-> Question(JsonSerialize(records), "Json"),
          calls |-> <<"serde_json::to_string_pretty">>]
    [] format = "Yaml" ->
         [res |-> Question(YamlSerialize(records), "Yaml"),
          calls |-> <<"serde_yaml::to_string">>]
    [] format = "Csv" ->
         [res |-> Question(CsvSerialize(records), "Csv"),
          calls |-> <<"csv::Writer::serialize">>]
    [] format = "Toml" ->
         [res |-> Question(TomlSerialize(records), "TomlSer"),
          calls |-> <<"toml::to_string_pretty">>]

----------------------------------------------------------------------------
\* The texts callers pass in.  A case names how a text is built:
\* [format, shape, R, i, key].

Case(format, shape, R, i, key) ==
  [format |-> format, shape |-> shape, R |-> R, i |-> i, key |-> key]

\* Empty and whitespace-only texts: "", "   ", "\n", " \n  ".
BlankTexts == << <<>>, <<SP, SP, SP>>, <<NL>>, <<SP, NL, Indent>> >>

\* Column orders of a CSV text other than the declared one.
ColumnOrders == << <<4, 3, 2, 1>>, <<2, 1, 3, 4>>, <<3, 4, 1, 2>> >>

\* The records of initial_json in main, and the ones nested under "child".
SampleRecords == <<Alice, Bob, Charlie>>

NonEmpty == (Canon \cup {SampleRecords}) \ {<<>>}

Encoded(R, format) == SerializeToString(R, format).res.val

\* R's elements with the i-th replaced by x.
WithElem(elems, i, x) == [elems EXCEPT ![i] = x]

DropKey(entries, key) == SelectSeq(entries, LAMBDA e : e[1] # key)

JsonObjects(R) == [k \in DOMAIN R |-> JsonObject(R[k])]
JsonMembersOf(record) ==
  LET fields == SerializeRecord(record)
  IN [k \in DOMAIN fields |-> <<fields[k][1], <<fields[k][2]>>>>]

JsonCaseText(c) ==
  LET enc == Encoded(c.R, "Json")
  IN CASE c.shape = "missing" ->
            JsonRenderArray(WithElem(JsonObjects(c.R), c.i,
              JsonRenderObject(DropKey(JsonMembersOf(c.R[c.i]), c.key))))
       [] c.shape = "extra" ->
            JsonRenderArray(WithElem(JsonObjects(c.R), c.i,
              JsonRenderObject(JsonMembersOf(c.R[c.i]) \o << <<c.key, enc>> >>)))
       [] c.shape = "positional" ->
            JsonRenderArray(WithElem(JsonObjects(c.R), c.i,
              <<P("[")>>
              \o Concat([k \in DOMAIN RecordFields |->
                   (IF k = 1 THEN <<>> ELSE <<P(",")>>)
                   \o <<Literal(c.R[c.i], RecordFields[k])>>])
              \o <<P("]")>>))
       [] c.shape = "wrapped" ->
            <<P("{"), Str(c.key), P(":")>> \o enc \o <<P("}")>>
       [] c.shape = "truncated" -> SubSeq(enc, 1, Len(enc) - 1)
       [] c.shape = "compact" -> SelectSeq(enc, LAMBDA t : ~IsWhitespace(t))

YamlEntriesOf(record) ==
  [k \in DOMAIN RecordFields |-> <<RecordFields[k], YamlScalar(record, RecordFields[k])>>]

YamlCaseText(c) ==
  LET items == [k \in DOMAIN c.R |-> YamlItem(c.R[k])]
  IN CASE c.shape = "missing" ->
            Concat(WithElem(items, c.i,
              YamlRenderItem(DropKey(YamlEntriesOf(c.R[c.i]), c.key))))
       [] c.shape = "extra" ->
            Concat(WithElem(items, c.i,
              YamlRenderItem(Append(YamlEntriesOf(c.R[c.i]), <<c.key, Word("x")>>))))
       [] c.shape = "mapping" ->
            <<Word(c.key), P(":"), NL>> \o Encoded(c.R, "Yaml")

CsvColumns(R, order) ==
  CsvLine([k \in DOMAIN order |-> RecordFields[order[k]]])
  \o Concat([r \in DOMAIN R |->
       CsvLine([k \in DOMAIN order |-> FieldText(R[r], RecordFields[order[k]])])])

CsvCaseText(c) ==
  LET rows == [k \in DOMAIN c.R |-> CsvRow(c.R[k])]
      row == rows[c.i]
  IN CASE c.shape = "columns" -> CsvColumns(c.R, ColumnOrders[c.i])
       [] c.shape = "short" ->
            CsvLine(RecordFields)
            \o Concat(WithElem(rows, c.i, SubSeq(row, 1, Len(row) - 3) \o <<NL>>))
       [] c.shape = "long" ->
            CsvLine(RecordFields)
            \o Concat(WithElem(rows, c.i,
                 SubSeq(row, 1, Len(row) - 1) \o <<P(","), F(c.key), NL>>))
       [] c.shape = "badvalue" ->
            CsvLine(RecordFields)
            \o Concat(WithElem(rows, c.i, <<F(c.key)>> \o Tail(row)))
       [] c.shape = "header_only" -> CsvLine(RecordFields)
       [] c.shape = "missing" ->
            LET keep == SelectSeq(RecordFields, LAMBDA f : f # c.key)
            IN CsvLine(keep)
               \o Concat([r \in DOMAIN c.R |->
                    CsvLine([k \in DOMAIN keep |-> FieldText(c.R[r], keep[k])])])

TomlCaseText(c) ==
  LET tables == [k \in DOMAIN c.R |->
                   (IF k = 1 THEN <<>> ELSE <<NL>>) \o TomlTable(c.R[k])]
  IN CASE c.shape = "otherkey" ->
            Concat([k \in DOMAIN c.R |->
              (IF k = 1 THEN <<>> ELSE <<NL>>)
              \o TomlRenderTable(c.key, SerializeRecord(c.R[k]))])
       [] c.shape = "bare" -> <<Word(c.key), P("="), Str("x"), NL>>
       [] c.shape = "extra_top" ->
            <<Word(c.key), P("="), Str("x"), NL, NL>> \o Encoded(c.R, "Toml")
       [] c.shape = "missing" ->
            Concat(WithElem(tables, c.i,
              (IF c.i = 1 THEN <<>> ELSE <<NL>>)
              \o TomlRenderTable(WrapperKey,
                   DropKey(SerializeRecord(c.R[c.i]), c.key))))

\* The text of a case.
CaseText(c) ==
  CASE c.shape = "blank" -> BlankTexts[c.i]
    [] c.shape = "encoded" -> Encoded(c.R, c.format)
    [] c.format = "Json" -> JsonCaseText(c)
    [] c.format = "Yaml" -> YamlCaseText(c)
    [] c.format = "Csv" -> CsvCaseText(c)
    [] c.format = "Toml" -> TomlCaseText(c)

Positions(R) == DOMAIN R

Cases ==
  {Case(f, "blank", <<>>, i, "") : f \in Formats, i \in DOMAIN BlankTexts}
  \cup {Case(f, "encoded", R, 0, "") : f \in Formats, R \in Canon}
  \cup UNION {{Case(f, "missing", R, i, key) : i \in Positions(R), key \in FieldSet}
              : f \in {"Json", "Yaml", "Toml"}, R \in NonEmpty}
  \cup UNION {{Case(f, "extra", R, i, "child") : i \in Positions(R)}
              : f \in {"Json", "Yaml"}, R \in NonEmpty}
  \cup UNION {{Case("Json", "positional", R, i, "") : i \in Positions(R)} : R \in NonEmpty}
  \cup {Case("Json", shape, R, 0, WrapperKey) :
          shape \in {"wrapped", "truncated", "compact"}, R \in Canon}
  \cup {Case("Yaml", "mapping", R, 0, WrapperKey) : R \in Canon}
  \cup {Case("Csv", "columns", R, i, "") : R \in NonEmpty, i \in DOMAIN ColumnOrders}
  \cup UNION {{Case("Csv", shape, R, i, "x") : i \in Positions(R)}
              : shape \in {"short", "long", "badvalue"}, R \in NonEmpty}
  \cup {Case("Csv", "header_only", <<>>, 0, "")}
  \cup {Case("Csv", "missing", R, 0, key) : R \in NonEmpty, key \in FieldSet}
  \cup {Case("Toml", "otherkey", R, 0, "items") : R \in NonEmpty}
  \cup {Case("Toml", "bare", <<>>, 0, "title")}
  \cup {Case("Toml", "extra_top", R, 0, "title") : R \in Canon}

\* initial_json of main: the literal in the source (Alice carrying the three
\* records again under "child"), or a canonical sequence as JSON.
SampleCase == Case("Json", "extra", SampleRecords, 1, "child")

MainCases == {SampleCase} \cup {Case("Json", "encoded", R, 0, "") : R \in Canon}

----------------------------------------------------------------------------
\* State

VARIABLES
  pc,             \* where convert_data is: "idle", "decode", "encode", "done", "exit"
  caller,         \* who called convert_data: "none", "other", "main"
  given,          \* the case the caller built its text from
  input_string,   \* convert_data's arguments
  input_format,
  output_format,
  records,        \* convert_data's local, bound when decoding succeeded
  result,         \* convert_data's return value
  trace,          \* the functions convert_data has called so far, in order
  initial_json,   \* main's literal
  step,           \* which of main's four conversions is running
  main_result     \* main's outcome

vars ==
  <<pc, caller, given, input_string, input_format, output_format, records,
    result, trace, initial_json, step, main_result>>

None == [tag |-> "None"]
NoCase == Case("None", "none", <<>>, 0, "")

Init ==
  /\ pc = "idle"
  /\ caller = "none"
  /\ given = NoCase
  /\ input_string = <<>>
  /\ input_format = "None"
  /\ output_format = "None"
  /\ records = <<>>
  /\ result = None
  /\ trace = <<>>
  /\ initial_json = <<>>
  /\ step = 0
  /\ main_result = None

\* Entry into convert_data with the given arguments.
Enter(text, from, to) ==
  /\ pc' = "decode"
  /\ input_string' = text
  /\ input_format' = from
  /\ output_format' = to
  /\ records' = <<>>
  /\ result' = None
  /\ trace' = <<>>

\* Some caller converts the text of case c to format `to`.
Call(c, to) ==
  /\ pc = "idle"
  /\ caller = "none"
  /\ caller' = "other"
  /\ given' = c
  /\ Enter(CaseText(c), c.format, to)
  /\ UNCHANGED <<initial_json, step, main_result>>

\* Step 1 going on to step 2 after a decode error, with no records.
Decode_ContinueOnError ==
  /\ pc = "decode"
  /\ LET d == DeserializeFromString(input_string, input_format)
     IN /\ trace' = trace \o <<"deserialize_from_string">> \o d.calls
        /\ records' = IF IsErr(d.res) THEN <<>> ELSE d.res.val
  /\ pc' = "encode"
  /\ UNCHANGED <<caller, given, input_string, input_format, output_format,
                 result, initial_json, step, main_result>>

\* Step 1 of convert_data: deserialize_from_string(input_string, input_format)?
Decode ==
  /\ pc = "decode"
  /\ LET d == DeserializeFromString(input_string, input_format)
     IN /\ trace' = trace \o <<"deserialize_from_string">> \o d.calls
        /\ IF IsErr(d.res)
           THEN pc' = "done" /\ result' = d.res /\ UNCHANGED records
           ELSE pc' = "encode" /\ records' = d.res.val /\ UNCHANGED result
  /\ UNCHANGED <<caller, given, input_string, input_format, output_format,
                 initial_json, step, main_result>>

\* Step 2 of convert_data: serialize_to_string(&records, output_format)?
Encode ==
  /\ pc = "encode"
  /\ LET e == SerializeToString(records, output_format)
     IN /\ trace' = trace \o <<"serialize_to_string">> \o e.calls
        /\ result' = e.res
  /\ pc' = "done"
  /\ UNCHANGED <<caller, given, input_string, input_format, output_format,
                 records, initial_json, step, main_result>>

\* convert_data has returned to a caller other than main; its locals are gone.
Return ==
  /\ pc = "done"
  /\ caller = "other"
  /\ pc' = "idle"
  /\ caller' = "none"
  /\ given' = NoCase
  /\ input_string' = <<>>
  /\ input_format' = "None"
  /\ output_format' = "None"
  /\ records' = <<>>
  /\ result' = None
  /\ trace' = <<>>
  /\ UNCHANGED <<initial_json, step, main_result>>

\* The four conversions of main, in order.
MainFormats ==
  << <<"Json", "Yaml">>, <<"Yaml", "Csv">>, <<"Csv", "Toml">>, <<"Toml", "Json">> >>

\* main starts: convert_data(initial_json, Format::Json, Format::Yaml)
MainStart(c) ==
  /\ pc = "idle"
  /\ caller = "none"
  /\ caller' = "main"
  /\ given' = c
  /\ initial_json' = CaseText(c)
  /\ step' = 1
  /\ Enter(CaseText(c), MainFormats[1][1], MainFormats[1][2])
  /\ UNCHANGED main_result

\* The next conversion of main takes the text the last one returned.
MainNext ==
  /\ caller = "main"
  /\ pc = "done"
  /\ IsOk(result)
  /\ step < Len(MainFormats)
  /\ step' = step + 1
  /\ Enter(result.val, MainFormats[step + 1][1], MainFormats[step + 1][2])
  /\ UNCHANGED <<caller, given, initial_json, main_result>>

\* convert_data(..)? in main: an error ends main with that error.
MainFail ==
  /\ caller = "main"
  /\ pc = "done"
  /\ IsErr(result)
  /\ pc' = "exit"
  /\ main_result' = result
  /\ UNCHANGED <<caller, given, input_string, input_format, output_format,
                 records, result, trace, initial_json, step>>

\* After the fourth conversion main decodes initial_json and the final JSON
\* and asserts that the two are equal.
MainVerify ==
  /\ caller = "main"
  /\ pc = "done"
  /\ IsOk(result)
  /\ step = Len(MainFormats)
  /\ LET initial_records == Question(JsonDeserialize(initial_json), "Json")
         final_records == Question(JsonDeserialize(result.val), "Json")
     IN main_result' =
          IF IsErr(initial_records) THEN initial_records
          ELSE IF IsErr(final_records) THEN final_records
          ELSE IF initial_records.val = final_records.val THEN Ok(final_records.val)
          ELSE [tag |-> "Panic"]
  /\ pc' = "exit"
  /\ UNCHANGED <<caller, given, input_string, input_format, output_format,
                 records, result, trace, initial_json, step>>

Next ==
  \/ \E c \in Cases, to \in Formats : Call(c, to)
  \/ Decode
  \/ Encode
  \/ Return
  \/ \E c \in MainCases : MainStart(c)
  \/ MainNext
  \/ MainFail
  \/ MainVerify

Spec == Init /\ [][Next]_vars

----------------------------------------------------------------------------
\* Properties

\* The stages convert_data has run, in order.
Stages ==
  SelectSeq(trace, LAMBDA e : e \in {"deserialize_from_string", "serialize_to_string"})

\* The decode stage has run.
Decoded == pc \in {"encode", "done", "exit"}

\* The decode stage has run and bound records.
DecodeSucceeded == pc = "encode" \/ (Decoded /\ Len(Stages) = 2)

\* convert_data has returned.
Returned == pc \in {"done", "exit"}

\* input_string is the text of the case in given (main's later conversions
\* take the text of the conversion before).
InputIsGiven == caller = "other" \/ (caller = "main" /\ step = 1)

IsBlank(text) == \A i \in DOMAIN text : text[i][1] = "ws"

\* C1: for every format, decoding a text that is empty or only whitespace
\* returns EmptyInput tagged with that format, and no parser of any format
\* has been called.
C1_EmptyInputBeforeParsing ==
  (Decoded /\ IsBlank(input_string))
    => /\ result = Err("EmptyInput", input_format)
       /\ trace = <<"deserialize_from_string">>

C1_Witness ==
  /\ pc = "done"
  /\ given.shape = "blank"
  /\ input_string = <<SP, NL, Indent>>
  /\ result = Err("EmptyInput", "Toml")

\* C2: in every call the decode stage runs once and first; the encode stage
\* runs at most once, and only when decoding succeeded; when decoding fails
\* its error is the result and encoding is not attempted.
C2_DecodeThenEncode ==
  LET d == DeserializeFromString(input_string, input_format).res
  IN /\ pc \in {"idle", "decode"} => Stages = <<>>
     /\ pc = "encode" =>
          /\ Stages = <<"deserialize_from_string">>
          /\ IsOk(d) /\ records = d.val /\ result = None
     /\ Returned =>
          IF IsErr(d)
          THEN Stages = <<"deserialize_from_string">> /\ result = d
          ELSE /\ Stages = <<"deserialize_from_string", "serialize_to_string">>
               /\ records = d.val

C2_Witness ==
  /\ pc = "done"
  /\ result = Err("Json", "None")
  /\ trace = <<"deserialize_from_string", "serde_json::from_str">>

\* C3: for every canonical sequence R, the empty one included, and every
\* format F, the text that encoding R in F gives decodes in F to R.
C3_RoundTripPerFormat ==
  (caller = "other" /\ given.shape = "encoded" /\ Decoded)
    => DecodeSucceeded /\ records = given.R

\* C4: started from a canonical sequence as JSON, main's chain JSON -> YAML
\* -> CSV -> TOML -> JSON ends without an error and with the records it
\* started from.
C4_FullCycle ==
  (caller = "main" /\ given.shape = "encoded" /\ pc = "exit")
    => main_result = Ok(given.R)

\* C5 as stated: a JSON object that lacks one of the four fields, or that
\* carries a field outside the schema, makes decoding fail with a JSON error.
C5_MissingOrExtraRejected ==
  (InputIsGiven /\ given.format = "Json" /\ given.shape \in {"missing", "extra"}
   /\ Decoded)
    => result = Err("Json", "None")

\* C5 amended: a JSON object that lacks one of the four fields makes decoding
\* fail with a JSON error; an object that has the four fields and one more
\* (such as a nested list under "child") is accepted, and its record is built
\* from the four known fields.
C5_MissingRejectedExtraIgnored ==
  (InputIsGiven /\ given.format = "Json" /\ Decoded)
    => /\ given.shape = "missing" => result = Err("Json", "None") /\ records = <<>>
       /\ given.shape = "extra" => DecodeSucceeded /\ records = given.R

C5_Witness ==
  /\ caller = "main"
  /\ given = SampleCase
  /\ step = 1
  /\ pc = "encode"
  /\ records = SampleRecords

\* C6: a CSV text with a row that does not bind to a Record (a column too
\* few or too many, a value of the wrong type, a column missing) decodes to
\* a CSV error; the records of the rows before it are not returned and
\* nothing is encoded.
C6_CsvAllOrNothing ==
  (InputIsGiven /\ given.format = "Csv" /\ Decoded
   /\ given.shape \in {"short", "long", "badvalue", "missing"})
    => /\ pc = "done"
       /\ result = Err("Csv", "None")
       /\ records = <<>>
       /\ Stages = <<"deserialize_from_string">>

C6_Witness ==
  /\ pc = "done"
  /\ given.format = "Csv"
  /\ given.shape = "short"
  /\ given.i = 2
  /\ result = Err("Csv", "None")

\* A text has the top-level key records: as "records = ..." or "[[records]]".
HasWrapper(text) ==
  \E i \in DOMAIN text :
    /\ text[i] = <<"word", "records">>
    /\ i = 1 \/ text[i - 1] = <<"p", "[[">> \/ text[i - 1] = <<"ws", "\n">>

\* C7: TOML text without the key records decodes to a TOML decode error;
\* encoding to TOML always writes the key records and decoding TOML removes
\* it; no other format writes it, and JSON or YAML text wrapped under it is
\* rejected.
C7_RecordsWrapperTomlOnly ==
  /\ (InputIsGiven /\ Decoded /\ given.format = "Toml")
       => /\ given.shape \in {"otherkey", "bare"} => result = Err("TomlDe", "None")
          /\ given.shape = "encoded" => DecodeSucceeded /\ records = given.R
  /\ (Returned /\ IsOk(result))
       => /\ output_format = "Toml" => HasWrapper(result.val)
          /\ output_format # "Toml" =>
               \A i \in DOMAIN result.val : result.val[i][2] # "records"
  /\ (InputIsGiven /\ Decoded /\ given.shape \in {"wrapped", "mapping"})
       => result = Err(given.format, "None")

C7_Witness ==
  /\ pc = "done"
  /\ given.shape = "otherkey"
  /\ Len(given.R) = 2
  /\ result = Err("TomlDe", "None")

\* C8: for every canonical sequence, the empty one included, the CSV text
\* that encoding gives is the header id,name,value,active followed by one
\* row per record, in order.
C8_CsvHeaderAndRows ==
  (Returned /\ output_format = "Csv" /\ Len(Stages) = 2)
    => /\ IsOk(result)
       /\ LET lines == Split(result.val, <<"ws", "\n">>)
          IN /\ Len(lines) = Len(records) + 2
             /\ lines[Len(lines)] = <<>>
             /\ lines[1] = <<F("id"), P(","), F("name"), P(","), F("value"),
                             P(","), F("active")>>
             /\ \A k \in DOMAIN records :
                  lines[k + 1] =
                    <<F(U32Text(records[k].id)), P(","), F(records[k].name), P(","),
                      F(F64Text(records[k].value)), P(","),
                      F(BoolText(records[k].active))>>

\* C9: a CSV text whose columns stand in another order than id, name,
\* value, active, under the same header names, decodes to the same records
\* as the text with the columns in declared order.
C9_CsvBindsByHeaderName ==
  (InputIsGiven /\ given.format = "Csv" /\ Decoded /\ given.R # <<>>
   /\ given.shape \in {"columns", "encoded"})
    => DecodeSucceeded /\ records = given.R

C9_Witness ==
  /\ pc = "encode"
  /\ given.shape = "columns"
  /\ given.i = 1
  /\ Len(given.R) = 2
  /\ input_string[1] = F("active")
  /\ records = given.R

\* C10: a failed call returns one error and no text; the error is
\* EmptyInput tagged with the input format, or the input format's own
\* decode kind; only the parser of the input format and the serializer of
\* the output format are ever called; UnsupportedRepresentation is never
\* returned.
C10_ErrorBelongsToStageAndFormat ==
  LET parser == CASE input_format = "Json" -> "serde_json::from_str"
                  [] input_format = "Yaml" -> "serde_yaml::from_str"
                  [] input_format = "Csv" -> "csv::Reader::deserialize"
                  [] input_format = "Toml" -> "toml::from_str"
                  [] OTHER -> "none"
      serializer == CASE output_format = "Json" -> "serde_json::to_string_pretty"
                      [] output_format = "Yaml" -> "serde_yaml::to_string"
                      [] output_format = "Csv" -> "csv::Writer::serialize"
                      [] output_format = "Toml" -> "toml::to_string_pretty"
                      [] OTHER -> "none"
      kind == CASE input_format = "Json" -> "Json"
                [] input_format = "Yaml" -> "Yaml"
                [] input_format = "Csv" -> "Csv"
                [] input_format = "Toml" -> "TomlDe"
                [] OTHER -> "none"
  IN /\ \A i \in DOMAIN trace :
          trace[i] \in {"deserialize_from_string", "serialize_to_string",
                        parser, serializer}
     /\ Returned => result.tag \in {"Ok", "Err"}
     /\ (Returned /\ IsErr(result)) =>
          /\ Stages = <<"deserialize_from_string">>
          /\ result.kind \in ErrorKinds \ {"UnsupportedRepresentation"}
          /\ IF IsBlank(input_string)
             THEN result = Err("EmptyInput", input_format)
             ELSE result = Err(kind, "None")
     /\ (Returned /\ IsOk(result)) =>
          Stages = <<"deserialize_from_string", "serialize_to_string">>

C10_Witness ==
  /\ pc = "done"
  /\ given.shape = "otherkey"
  /\ input_format = "Toml"
  /\ output_format = "Json"
  /\ result = Err("TomlDe", "None")
  /\ trace = <<"deserialize_from_string", "toml::from_str">>

====
